---- MODULE Spec2Model ----
(***************************************************************************)
(* Module lifecycle and event bus of the Everly backend:                   *)
(*   app/core/module_manager.py   ModuleManager                            *)
(*   app/core/base_module.py      BaseModule                               *)
(*   app/core/event_bus.py        EventBus                                 *)
(*   app/core/dependency_injector.py  DependencyContainer, ServiceRegistry *)
(*                                                                         *)
(* Everything runs on one asyncio event loop.  A coroutine runs without    *)
(* interruption up to its next suspending await, so an action of the model *)
(* is one such uninterrupted stretch of code.                              *)
(***************************************************************************)
EXTENDS Integers, Sequences, FiniteSets, Bags, TLC

(***************************************************************************)
(* Bounds of the model.                                                    *)
(***************************************************************************)
MaxModules == 3    \* distinct module names that get registered
MaxEdges == 3      \* dependency entries declared by the registered modules
MaxHandlers == 2   \* distinct handler callables
MaxSubs == 2       \* subscriptions held by the bus in BusSpec
MgrMaxSubs == 1    \* subscriptions held by the bus in EventSpec
EvMaxModules == 2  \* module names that get registered in EventSpec
EvMaxEdges == 2    \* dependency entries declared in EventSpec
MaxMiddleware == 2 \* middleware registered on the bus
RegMaxSubs == 3    \* subscriptions held by the bus in RegistrySpec

(***************************************************************************)
(* Module names.  Names are opaque strings to the manager, so the model    *)
(* hands out fresh names in this order: the n-th distinct name that gets   *)
(* registered is ModuleNames[n].  The declared dependencies range over all *)
(* names, so the registration order is arbitrary relative to the graph.    *)
(***************************************************************************)
ModuleNames == <<"auth", "users", "media", "diaries", "m5", "m6", "m7">>
Names == {ModuleNames[i] : i \in 1..MaxModules}

Range(s) == {s[i] : i \in 1..Len(s)}
SeqsUpTo(S, n) == UNION {[1..k -> S] : k \in 0..n}
Injective(s) == \A i, j \in 1..Len(s) : i # j => s[i] # s[j]
Reverse(s) == [i \in 1..Len(s) |-> s[Len(s) + 1 - i]]

\* The dependency lists a module object may declare.
DepLists == {s \in SeqsUpTo(Names, MaxEdges) : Injective(s)}

VARIABLES
  modules,               \* ModuleManager.modules: the registered modules, in insertion order
  is_initialized,        \* BaseModule._is_initialized of the module registered under a name
  singletons,            \* DependencyContainer._singletons
  services,              \* DependencyContainer._services
  redis,                 \* whether the process holds a cache handle (else None)
  call,                  \* the top-level manager call in progress, or the last one and how it ended
  initialization_order,  \* initialize_all: the local initialization_order
  idx,                   \* initialize_all: position of the for loop in initialization_order
  pc,                    \* initialize_all: where the loop body stands
  cleanup_tasks,         \* cleanup_all: the names whose _cleanup_module coroutine was created, in order
  ctask,                 \* cleanup_all: state of the _cleanup_module task of each name
  initLog,               \* names whose initialize was invoked during the current/last manager call
  cleanupLog,            \* names whose cleanup was invoked during the current/last manager call
  emitted,               \* bag of the events _emit_module_event handed to publish during that call
  result,                \* what the last call that hands back a value was given and returned
  app,                   \* the FastAPI app: where startup_event stands and the routes mounted on it
  handlers,              \* EventBus._handlers: event type -> list of handlers
  middleware,            \* EventBus._middleware
  disp                   \* the publish / publish_and_wait call in progress of each caller

mgrVars == <<modules, is_initialized, singletons, services, redis, call,
             initialization_order, idx, pc, cleanup_tasks, ctask,
             initLog, cleanupLog, emitted, result>>
busVars == <<handlers, middleware, disp>>
vars == <<mgrVars, busVars, app>>

(***************************************************************************)
(* The registry: a dict name -> module, kept in insertion order.           *)
(***************************************************************************)
RegisteredNames == {modules[i].name : i \in 1..Len(modules)}
ModuleOf(mods, n) == mods[CHOOSE i \in 1..Len(mods) : mods[i].name = n]
NamesOf(mods) == {mods[i].name : i \in 1..Len(mods)}
RECURSIVE SumLen(_, _)
SumLen(mods, i) == IF i > Len(mods) THEN 0 ELSE Len(mods[i].dependencies) + SumLen(mods, i + 1)
TotalEdges == SumLen(modules, 1)

(***************************************************************************)
(* DependencyContainer: two dicts.  A key "a.b" is the pair <<a, b>>.      *)
(***************************************************************************)
ModuleObject(oid) == [kind |-> "module", id |-> oid]
Database == [kind |-> "database", id |-> 0]
Redis == [kind |-> "redis", id |-> 0]
NotFound == [kind |-> "None", id |-> 0]

register_singleton(reg, key, instance) ==
  [k \in DOMAIN reg \cup {key} |-> IF k = key THEN instance ELSE reg[k]]
get_singleton(key) == IF key \in DOMAIN singletons THEN singletons[key] ELSE NotFound
has_singleton(key) == key \in DOMAIN singletons
EmptyDict == [k \in {} |-> NotFound]


(***************************************************************************)
(* EventBus.                                                               *)
(***************************************************************************)
MODULE_INITIALIZED == "module.initialized"
MODULE_SHUTDOWN == "module.shutdown"
USER_CREATED == "user.created"
DIARY_CREATED == "diary.created"
LifecycleTypes == {MODULE_INITIALIZED, MODULE_SHUTDOWN}
DomainTypes == {USER_CREATED, DIARY_CREATED}
EventTypes == LifecycleTypes \cup DomainTypes

Handlers == 1..MaxHandlers
Middlewares == 1..MaxMiddleware

\* Python objects a handler may return or raise.  gather(return_exceptions=True)
\* puts a returned object and a raised exception into the same result list.
ExceptionObjects == {"ValueError()"}
PlainObjects == {"None", "r1"}
Objects == PlainObjects \cup ExceptionObjects
isinstance_Exception(r) == r \in ExceptionObjects

\* The callers that may have a publish in progress: the top-level caller
\* (initialize_all included) and the _cleanup_module task of each module.
Main == "main"
Ctx == {Main} \cup Names

IdleDisp == [pc |-> "idle", wait |-> FALSE, etype |-> "", mw |-> 0, mwlog |-> <<>>,
             snapshot |-> <<>>, tasks |-> <<>>, ret |-> <<>>]

get_handlers(hs, t) == IF t \in DOMAIN hs THEN hs[t] ELSE <<>>
TotalSubs == LET RECURSIVE Sum(_)
                 Sum(S) == IF S = {} THEN 0
                           ELSE LET t == CHOOSE x \in S : TRUE
                                IN Len(handlers[t]) + Sum(S \ {t})
             IN Sum(DOMAIN handlers)

\* subscribe: create the list on first use, append the handler.
subscribe(hs, t, h) ==
  [k \in DOMAIN hs \cup {t} |-> IF k = t THEN Append(get_handlers(hs, t), h) ELSE hs[k]]

\* list.remove: drops the first occurrence.
RemoveFirst(s, h) ==
  LET i == CHOOSE k \in 1..Len(s) : s[k] = h /\ \A j \in 1..(k - 1) : s[j] # h
  IN [k \in 1..(Len(s) - 1) |-> IF k < i THEN s[k] ELSE s[k + 1]]

\* Variant: every occurrence of the handler is removed.
unsubscribe_every_occurrence(hs, t, h) ==
  IF t \in DOMAIN hs /\ h \in Range(hs[t])
    THEN [ok |-> TRUE, handlers |-> [hs EXCEPT ![t] = SelectSeq(@, LAMBDA x : x # h)]]
    ELSE [ok |-> FALSE, handlers |-> hs]

\* unsubscribe: result and the handlers afterwards.
unsubscribe(hs, t, h) ==
  IF t \in DOMAIN hs /\ h \in Range(hs[t])
    THEN [ok |-> TRUE, handlers |-> [hs EXCEPT ![t] = RemoveFirst(@, h)]]
    ELSE [ok |-> FALSE, handlers |-> hs]

\* Variant: the handler list is looked up with self._handlers[event_type].
Dispatch_lookup_raises(d, hs) ==
  IF d.etype \notin DOMAIN hs THEN [d EXCEPT !.pc = "raised"]
  ELSE IF hs[d.etype] = <<>>
    THEN [d EXCEPT !.pc = "returned", !.ret = <<>>]
    ELSE [d EXCEPT !.pc = "gather", !.snapshot = hs[d.etype],
                   !.tasks = [i \in 1..Len(hs[d.etype]) |-> [st |-> "pending", val |-> "None"]]]

\* publish / publish_and_wait after the middleware loop: look the handlers up,
\* return at once when there are none, else create one coroutine per handler
\* and hand them to gather.
Dispatch(d, hs) ==
  LET hl == get_handlers(hs, d.etype)
  IN IF hl = <<>>
       THEN [d EXCEPT !.pc = "returned", !.ret = <<>>]
       ELSE [d EXCEPT !.pc = "gather", !.snapshot = hl,
                      !.tasks = [i \in 1..Len(hl) |-> [st |-> "pending", val |-> "None"]]]

\* Entry of publish (wait = FALSE) and publish_and_wait (wait = TRUE) up to the
\* first suspension.
BeginPublish(t, wait, mws, hs) ==
  LET d == [IdleDisp EXCEPT !.pc = "middleware", !.wait = wait, !.etype = t, !.mw = 1]
  IN IF Len(mws) = 0 THEN Dispatch(d, hs) ELSE d

\* The result list gather hands back.
GatherResults(d) == [i \in 1..Len(d.tasks) |-> d.tasks[i].val]

\* publish after gather: for every result that is an exception the handler's
\* name is read through handlers[i], an index into the list the bus holds.
PublishAfterGather(d, live) ==
  LET results == GatherResults(d)
  IN IF \E i \in 1..Len(results) : isinstance_Exception(results[i]) /\ i > Len(live)
       THEN [d EXCEPT !.pc = "raised"]
       ELSE [d EXCEPT !.pc = "returned"]

\* publish_and_wait after gather: the results that are no exception.
PublishAndWaitAfterGather(d) ==
  [d EXCEPT !.pc = "returned",
            !.ret = SelectSeq(GatherResults(d), LAMBDA r : ~isinstance_Exception(r))]


(***************************************************************************)
(* ModuleManager: registration and the initialization order.               *)
(***************************************************************************)
\* A module object.  oid tells the objects constructed under one name apart:
\* 1 for the first, 2 for one constructed while the name is already registered.
NewModule(n, deps) ==
  [name |-> n, dependencies |-> deps, oid |-> IF n \in RegisteredNames THEN 2 ELSE 1]

\* Variant: the duplicate check is missing, the new module is stored.
register_module_overwrite(mods, sing, module) ==
  [raised |-> FALSE,
   modules |-> IF module.name \in NamesOf(mods)
                 THEN [i \in 1..Len(mods) |-> IF mods[i].name = module.name THEN module ELSE mods[i]]
                 ELSE Append(mods, module),
   singletons |-> register_singleton(sing, <<"module", module.name>>, ModuleObject(module.oid))]

\* register_module: the duplicate check comes first; then the registry and
\* the container are written.
register_module(mods, sing, module) ==
  IF module.name \in NamesOf(mods)
    THEN [raised |-> TRUE, modules |-> mods, singletons |-> sing]
    ELSE [raised |-> FALSE,
          modules |-> Append(mods, module),
          singletons |-> register_singleton(sing, <<"module", module.name>>,
                                            ModuleObject(module.oid))]

\* Variant: only the first registered module's dependencies are checked.
check_dependencies_first_only(mods) ==
  Len(mods) > 0 => \A k \in 1..Len(mods[1].dependencies) :
     mods[1].dependencies[k] \in NamesOf(mods)

\* _check_dependencies: TRUE when it returns, FALSE when it raises ValueError.
check_dependencies(mods) ==
  \A i \in 1..Len(mods) : \A k \in 1..Len(mods[i].dependencies) :
     mods[i].dependencies[k] \in NamesOf(mods)

\* _get_initialization_order: depth-first visit with the sets visited and
\* temp_visited and the list order.  err is "none" unless a visit raised.
RECURSIVE visit(_, _, _), visit_dependencies(_, _, _, _)
\* Variant: a module met again while in progress is skipped instead of reported.
visit_no_cycle_check(mods, module_name, st) ==
  IF st.err # "none" \/ module_name \in st.temp_visited \/ module_name \in st.visited THEN st
  ELSE IF module_name \notin NamesOf(mods) THEN [st EXCEPT !.err = "KeyError"]
  ELSE LET s1 == [st EXCEPT !.temp_visited = @ \cup {module_name}]
           s2 == visit_dependencies(mods, ModuleOf(mods, module_name).dependencies, 1, s1)
       IN IF s2.err # "none" THEN s2
          ELSE [s2 EXCEPT !.temp_visited = @ \ {module_name},
                          !.visited = @ \cup {module_name},
                          !.order = Append(@, module_name)]

visit(mods, module_name, st) ==
  IF st.err # "none" THEN st
  ELSE IF module_name \in st.temp_visited THEN [st EXCEPT !.err = "ValueError"]
  ELSE IF module_name \notin st.visited
    THEN IF module_name \notin NamesOf(mods) THEN [st EXCEPT !.err = "KeyError"]
         ELSE LET s1 == [st EXCEPT !.temp_visited = @ \cup {module_name}]
                  s2 == visit_dependencies(mods, ModuleOf(mods, module_name).dependencies, 1, s1)
              IN IF s2.err # "none" THEN s2
                 ELSE [s2 EXCEPT !.temp_visited = @ \ {module_name},
                                 !.visited = @ \cup {module_name},
                                 !.order = Append(@, module_name)]
  ELSE st
visit_dependencies(mods, deps, k, st) ==
  IF k > Len(deps) \/ st.err # "none" THEN st
  ELSE visit_dependencies(mods, deps, k + 1, visit(mods, deps[k], st))

RECURSIVE visit_all(_, _, _)
visit_all(mods, i, st) ==
  IF i > Len(mods) \/ st.err # "none" THEN st
  ELSE visit_all(mods, i + 1,
                 IF mods[i].name \notin st.visited THEN visit(mods, mods[i].name, st) ELSE st)

\* Variant: the order is built back to front.
get_initialization_order_reversed(mods) ==
  [visit_all(mods, 1, [visited |-> {}, temp_visited |-> {}, order |-> <<>>, err |-> "none"])
     EXCEPT !.order = Reverse(@)]

\* Variant: cycles are reported, but the order is the registration order.
get_initialization_order_registration(mods) ==
  [visit_all(mods, 1, [visited |-> {}, temp_visited |-> {}, order |-> <<>>, err |-> "none"])
     EXCEPT !.order = [i \in 1..Len(mods) |-> mods[i].name]]

get_initialization_order(mods) ==
  visit_all(mods, 1, [visited |-> {}, temp_visited |-> {}, order |-> <<>>, err |-> "none"])

\* ServiceRegistry.register_module_services
register_module_services(sing, module_name, cache) ==
  LET s1 == register_singleton(sing, <<module_name, "database">>, Database)
  IN IF cache THEN register_singleton(s1, <<module_name, "redis">>, Redis) ELSE s1

\* Variant: a coroutine is created for every registered module.
cleanup_order_all_registered(mods, flags) ==
  Reverse([i \in 1..Len(mods) |-> mods[i].name])

\* cleanup_all: the modules whose _cleanup_module coroutine is created, in
\* the order of creation.
cleanup_order(mods, flags) ==
  SelectSeq(Reverse([i \in 1..Len(mods) |-> mods[i].name]), LAMBDA n : flags[n])

\* BaseModule.version of the modules
Version == "1.0.0"

Event(t, n) ==
  [event_type |-> t, source_module |-> "system",
   data |-> [module_name |-> n, version |-> Version]]

\* No health_check_all / create_main_router call since the last manager call.
NoResult == [op |-> "none"]

Idle == call.status # "running"
Finished(op, status, error, arg) == [op |-> op, status |-> status, error |-> error, arg |-> arg]
Running(op) == [op |-> op, status |-> "running", error |-> "none", arg |-> ""]
InInitializeAll == call.op = "initialize_all" /\ call.status = "running"
InCleanupAll == call.op = "cleanup_all" /\ call.status = "running"

\* The app before startup_event ran: no module route is mounted.
NoRoutes == [pc |-> "init", routes |-> <<>>]

\* The process as constructed: nothing registered, nothing subscribed.  redis
\* is whether the bootstrap obtained a cache handle (get_redis() is None when
\* connect_to_redis failed); the manager is always handed that one.
Init ==
  /\ modules = <<>>
  /\ is_initialized = [n \in Names |-> FALSE]
  /\ singletons = EmptyDict
  /\ services = EmptyDict
  /\ redis \in BOOLEAN
  /\ call = Finished("none", "returned", "none", "")
  /\ initialization_order = <<>>
  /\ idx = 0
  /\ pc = "none"
  /\ cleanup_tasks = <<>>
  /\ ctask = [n \in Names |-> "none"]
  /\ initLog = <<>>
  /\ cleanupLog = <<>>
  /\ emitted = EmptyBag
  /\ result = NoResult
  /\ app = NoRoutes
  /\ handlers = [t \in {} |-> <<>>]
  /\ middleware = <<>>
  /\ disp = [c \in Ctx |-> IdleDisp]

(***************************************************************************)
(* Manager actions.  initLog, cleanupLog and emitted record what the       *)
(* current manager call did; every manager call starts them afresh.        *)
(***************************************************************************)
\* module_manager.register_module(module)
RegisterModule(n, deps, maxModules, maxEdges) ==
  /\ Idle
  /\ TotalEdges + Len(deps) <= maxEdges
  /\ \/ n \in RegisteredNames
     \/ Len(modules) < maxModules /\ n = ModuleNames[Len(modules) + 1]
  /\ LET r == register_module(modules, singletons, NewModule(n, deps))
     IN /\ modules' = r.modules
        /\ singletons' = r.singletons
        /\ call' = Finished("register_module", IF r.raised THEN "raised" ELSE "returned",
                            IF r.raised THEN "ValueError" ELSE "none", n)
  /\ initialization_order' = <<>>
  /\ idx' = 0
  /\ cleanup_tasks' = <<>>
  /\ ctask' = [m \in Names |-> "none"]
  /\ initLog' = <<>>
  /\ cleanupLog' = <<>>
  /\ emitted' = EmptyBag
  /\ result' = NoResult
  /\ UNCHANGED <<is_initialized, services, redis, app, pc, busVars>>

\* Variant: the services of every module of the order are registered up front.
enter_loop_registers_all(order, k, sing, log) ==
  LET keys == {<<order[j], "database">> : j \in 1..Len(order)}
      all == [key \in DOMAIN sing \cup keys |-> IF key \in DOMAIN sing THEN sing[key] ELSE Database]
  IN IF k > Len(order)
       THEN [call |-> Finished("initialize_all", "returned", "none", ""), pc |-> "none",
             idx |-> Len(order), singletons |-> sing, initLog |-> log]
       ELSE [call |-> Running("initialize_all"), pc |-> "initialize", idx |-> k,
             singletons |-> register_module_services(all, order[k], redis),
             initLog |-> Append(log, order[k])]

\* The for loop of initialize_all from the head of iteration k up to the
\* await of that module's initialize: the module's services are registered
\* and _base_initialize calls initialize.  Past the last module the call returns.
enter_loop(order, k, sing, log) ==
  IF k > Len(order)
    THEN [call |-> Finished("initialize_all", "returned", "none", ""), pc |-> "none",
          idx |-> Len(order), singletons |-> sing, initLog |-> log]
    ELSE [call |-> Running("initialize_all"), pc |-> "initialize", idx |-> k,
          singletons |-> register_module_services(sing, order[k], redis),
          initLog |-> Append(log, order[k])]

\* initialize_all from its entry: shared singletons, dependency check,
\* initialization order, then into the loop.  A module's initialize is called
\* once in its life (the bootstrap calls initialize_all once, at startup), so
\* the call is made while no module is initialized.
InitializeAll ==
  /\ Idle
  /\ \A n \in Names : ~is_initialized[n]
  /\ LET s1 == register_singleton(singletons, <<"shared", "database">>, Database)
         s2 == IF redis THEN register_singleton(s1, <<"shared", "redis">>, Redis) ELSE s1
         ord == get_initialization_order(modules)
         r == enter_loop(ord.order, 1, s2, <<>>)
     IN IF ~check_dependencies(modules)
          THEN /\ call' = Finished("initialize_all", "raised", "missing_dependency", "")
               /\ singletons' = s2
               /\ initialization_order' = <<>>
               /\ idx' = 0
               /\ initLog' = <<>>
               /\ UNCHANGED pc
        ELSE IF ord.err # "none"
          THEN /\ call' = Finished("initialize_all", "raised",
                                  IF ord.err = "ValueError" THEN "circular_dependency" ELSE ord.err, "")
               /\ singletons' = s2
               /\ initialization_order' = <<>>
               /\ idx' = 0
               /\ initLog' = <<>>
               /\ UNCHANGED pc
        ELSE /\ call' = r.call
             /\ singletons' = r.singletons
             /\ initialization_order' = ord.order
             /\ idx' = r.idx
             /\ initLog' = r.initLog
             /\ pc' = r.pc
  /\ cleanup_tasks' = <<>>
  /\ ctask' = [m \in Names |-> "none"]
  /\ cleanupLog' = <<>>
  /\ emitted' = EmptyBag
  /\ result' = NoResult
  /\ UNCHANGED <<modules, is_initialized, services, redis, app, busVars>>

\* initialize returned: _base_initialize sets the flag, module.initialized is
\* handed to publish.  When publish returns without suspending, the loop goes
\* on to the next module in the same stretch.
InitializeReturns ==
  /\ InInitializeAll /\ pc = "initialize"
  /\ LET module_name == initialization_order[idx]
         d == BeginPublish(MODULE_INITIALIZED, FALSE, middleware, handlers)
         r == enter_loop(initialization_order, idx + 1, singletons, initLog)
     IN /\ is_initialized' = [is_initialized EXCEPT ![module_name] = TRUE]
        /\ emitted' = emitted (+) SetToBag({Event(MODULE_INITIALIZED, module_name)})
        /\ IF d.pc = "returned"
             THEN /\ call' = r.call
                  /\ singletons' = r.singletons
                  /\ idx' = r.idx
                  /\ initLog' = r.initLog
                  /\ pc' = r.pc
                  /\ UNCHANGED disp
             ELSE /\ disp' = [disp EXCEPT ![Main] = d]
                  /\ pc' = "emit"
                  /\ UNCHANGED <<call, singletons, idx, initLog>>
  /\ UNCHANGED <<modules, services, redis, app, result, initialization_order, cleanup_tasks, ctask,
                 cleanupLog, handlers, middleware>>

\* Variant: the modules initialized so far are rolled back before re-raising.
InitializeRaises_rollback ==
  /\ InInitializeAll /\ pc = "initialize"
  /\ call' = Finished("initialize_all", "raised", "initialize", initialization_order[idx])
  /\ pc' = "none"
  /\ is_initialized' = [n \in Names |-> FALSE]
  /\ UNCHANGED <<modules, singletons, services, redis, app, result,
                 initialization_order, idx, cleanup_tasks, ctask, initLog, cleanupLog, emitted,
                 busVars>>

\* Variant: the flag is set before initialize is called, and stays set.
InitializeRaises_flag_set ==
  /\ InInitializeAll /\ pc = "initialize"
  /\ call' = Finished("initialize_all", "raised", "initialize", initialization_order[idx])
  /\ pc' = "none"
  /\ is_initialized' = [is_initialized EXCEPT ![initialization_order[idx]] = TRUE]
  /\ UNCHANGED <<modules, singletons, services, redis, app, result,
                 initialization_order, idx, cleanup_tasks, ctask, initLog, cleanupLog, emitted,
                 busVars>>

\* Variant: module.initialized is published for the module that failed as well.
InitializeRaises_emits ==
  /\ InInitializeAll /\ pc = "initialize"
  /\ call' = Finished("initialize_all", "raised", "initialize", initialization_order[idx])
  /\ pc' = "none"
  /\ emitted' = emitted (+) SetToBag({Event(MODULE_INITIALIZED, initialization_order[idx])})
  /\ UNCHANGED <<modules, is_initialized, singletons, services, redis, app, result,
                 initialization_order, idx, cleanup_tasks, ctask, initLog, cleanupLog,
                 busVars>>

\* initialize raised: logged and re-raised by initialize_all.
InitializeRaises ==
  /\ InInitializeAll /\ pc = "initialize"
  /\ call' = Finished("initialize_all", "raised", "initialize", initialization_order[idx])
  /\ pc' = "none"
  /\ UNCHANGED <<modules, is_initialized, singletons, services, redis, app, result,
                 initialization_order, idx, cleanup_tasks, ctask, initLog, cleanupLog, emitted,
                 busVars>>

\* gather of the publish of module.initialized is complete and publish returns:
\* on to the next module, or to the end of initialize_all.
EmitReturns ==
  /\ InInitializeAll /\ pc = "emit"
  /\ disp[Main].pc = "gather"
  /\ \A i \in 1..Len(disp[Main].tasks) : disp[Main].tasks[i].st \in {"done", "raised"}
  /\ PublishAfterGather(disp[Main], get_handlers(handlers, MODULE_INITIALIZED)).pc = "returned"
  /\ disp' = [disp EXCEPT ![Main] = IdleDisp]
  /\ LET r == enter_loop(initialization_order, idx + 1, singletons, initLog)
     IN /\ call' = r.call
        /\ singletons' = r.singletons
        /\ idx' = r.idx
        /\ initLog' = r.initLog
        /\ pc' = r.pc
  /\ UNCHANGED <<modules, is_initialized, services, redis, app, result, initialization_order,
                 cleanup_tasks, ctask, cleanupLog, emitted, handlers, middleware>>

\* gather is complete and publish raises: the except clause of the loop logs
\* and re-raises.
EmitRaises ==
  /\ InInitializeAll /\ pc = "emit"
  /\ disp[Main].pc = "gather"
  /\ \A i \in 1..Len(disp[Main].tasks) : disp[Main].tasks[i].st \in {"done", "raised"}
  /\ PublishAfterGather(disp[Main], get_handlers(handlers, MODULE_INITIALIZED)).pc = "raised"
  /\ disp' = [disp EXCEPT ![Main] = IdleDisp]
  /\ call' = Finished("initialize_all", "raised", "publish", initialization_order[idx])
  /\ pc' = "none"
  /\ UNCHANGED <<modules, is_initialized, singletons, services, redis, app, result,
                 initialization_order, idx, cleanup_tasks, ctask, initLog, cleanupLog, emitted,
                 handlers, middleware>>

\* cleanup_all up to the gather: one _cleanup_module coroutine per module that
\* is initialized, in reversed registration order.  Without any, the container
\* and the subscriptions are cleared at once.
CleanupAll ==
  /\ Idle
  /\ LET ts == cleanup_order(modules, is_initialized)
     IN /\ cleanup_tasks' = ts
        /\ ctask' = [n \in Names |-> IF n \in Range(ts) THEN "created" ELSE "none"]
        /\ IF ts = <<>>
             THEN /\ call' = Finished("cleanup_all", "returned", "none", "")
                  /\ singletons' = EmptyDict
                  /\ services' = EmptyDict
                  /\ handlers' = [t \in {} |-> <<>>]
             ELSE /\ call' = Running("cleanup_all")
                  /\ UNCHANGED <<singletons, services, handlers>>
  /\ initialization_order' = <<>>
  /\ idx' = 0
  /\ initLog' = <<>>
  /\ cleanupLog' = <<>>
  /\ emitted' = EmptyBag
  /\ result' = NoResult
  /\ UNCHANGED <<modules, is_initialized, redis, app, pc, middleware, disp>>

\* A _cleanup_module task starts (gather starts its tasks in the order given):
\* _base_cleanup calls the module's cleanup.
CleanupStarts(n) ==
  /\ InCleanupAll
  /\ ctask[n] = "created"
  /\ \A i \in 1..Len(cleanup_tasks) :
        cleanup_tasks[i] = n => \A j \in 1..(i - 1) : ctask[cleanup_tasks[j]] # "created"
  /\ ctask' = [ctask EXCEPT ![n] = "cleanup"]
  /\ cleanupLog' = Append(cleanupLog, n)
  /\ UNCHANGED <<modules, is_initialized, singletons, services, redis, app, result, call,
                 initialization_order, idx, pc, cleanup_tasks, initLog, emitted, busVars>>

\* cleanup returned: _base_cleanup clears the flag, then module.shutdown is
\* handed to publish.  When publish returns without suspending the task ends.
CleanupReturns(n) ==
  /\ InCleanupAll
  /\ ctask[n] = "cleanup"
  /\ is_initialized' = [is_initialized EXCEPT ![n] = FALSE]
  /\ emitted' = emitted (+) SetToBag({Event(MODULE_SHUTDOWN, n)})
  /\ LET d == BeginPublish(MODULE_SHUTDOWN, FALSE, middleware, handlers)
     IN IF d.pc = "returned"
          THEN /\ ctask' = [ctask EXCEPT ![n] = "done"]
               /\ UNCHANGED disp
          ELSE /\ ctask' = [ctask EXCEPT ![n] = "emit"]
               /\ disp' = [disp EXCEPT ![n] = d]
  /\ UNCHANGED <<modules, singletons, services, redis, app, result, call, initialization_order,
                 idx, pc, cleanup_tasks, initLog, cleanupLog, handlers, middleware>>

\* Variant: the exception leaves _cleanup_module and gather hands it to cleanup_all.
CleanupRaises_propagates(n) ==
  /\ InCleanupAll
  /\ ctask[n] = "cleanup"
  /\ ctask' = [ctask EXCEPT ![n] = "failed"]
  /\ call' = Finished("cleanup_all", "raised", "cleanup", n)
  /\ UNCHANGED <<modules, is_initialized, singletons, services, redis, app, result,
                 initialization_order, idx, pc, cleanup_tasks, initLog, cleanupLog, emitted,
                 busVars>>

\* Variant: the flag is cleared although cleanup raised.
CleanupRaises_flag_cleared(n) ==
  /\ InCleanupAll
  /\ ctask[n] = "cleanup"
  /\ ctask' = [ctask EXCEPT ![n] = "failed"]
  /\ is_initialized' = [is_initialized EXCEPT ![n] = FALSE]
  /\ UNCHANGED <<modules, singletons, services, redis, app, result, call,
                 initialization_order, idx, pc, cleanup_tasks, initLog, cleanupLog, emitted,
                 busVars>>

\* cleanup raised: _cleanup_module logs the error and ends.
CleanupRaises(n) ==
  /\ InCleanupAll
  /\ ctask[n] = "cleanup"
  /\ ctask' = [ctask EXCEPT ![n] = "failed"]
  /\ UNCHANGED <<modules, is_initialized, singletons, services, redis, app, result, call,
                 initialization_order, idx, pc, cleanup_tasks, initLog, cleanupLog, emitted,
                 busVars>>

\* gather of the publish of module.shutdown is complete: publish comes back to
\* _cleanup_module, by return or by an exception that the except clause logs,
\* and the task ends.
CleanupEmitEnds(n) ==
  /\ InCleanupAll
  /\ ctask[n] = "emit"
  /\ disp[n].pc = "gather"
  /\ \A i \in 1..Len(disp[n].tasks) : disp[n].tasks[i].st \in {"done", "raised"}
  /\ LET d == PublishAfterGather(disp[n], get_handlers(handlers, MODULE_SHUTDOWN))
     IN ctask' = [ctask EXCEPT ![n] = IF d.pc = "raised" THEN "emit_failed" ELSE "done"]
  /\ disp' = [disp EXCEPT ![n] = IdleDisp]
  /\ UNCHANGED <<modules, is_initialized, singletons, services, redis, app, result, call,
                 initialization_order, idx, pc, cleanup_tasks, initLog, cleanupLog, emitted,
                 handlers, middleware>>

\* Variant: cleanup_all empties the registry as well.
CleanupAllReturns_unregisters ==
  /\ InCleanupAll
  /\ \A n \in Range(cleanup_tasks) : ctask[n] \in {"done", "failed", "emit_failed"}
  /\ modules' = <<>>
  /\ singletons' = EmptyDict
  /\ services' = EmptyDict
  /\ handlers' = [t \in {} |-> <<>>]
  /\ call' = Finished("cleanup_all", "returned", "none", "")
  /\ UNCHANGED <<is_initialized, redis, app, result, initialization_order, idx, pc,
                 cleanup_tasks, ctask, initLog, cleanupLog, emitted, middleware, disp>>

\* Variant: container and subscriptions are cleared without waiting for the tasks.
CleanupAllReturns_without_gather ==
  /\ InCleanupAll
  /\ singletons' = EmptyDict
  /\ services' = EmptyDict
  /\ handlers' = [t \in {} |-> <<>>]
  /\ call' = Finished("cleanup_all", "returned", "none", "")
  /\ UNCHANGED <<modules, is_initialized, redis, app, result, initialization_order, idx, pc,
                 cleanup_tasks, ctask, initLog, cleanupLog, emitted, middleware, disp>>

\* gather is complete: container and subscriptions are cleared, cleanup_all returns.
CleanupAllReturns ==
  /\ InCleanupAll
  /\ \A n \in Range(cleanup_tasks) : ctask[n] \in {"done", "failed", "emit_failed"}
  /\ singletons' = EmptyDict
  /\ services' = EmptyDict
  /\ handlers' = [t \in {} |-> <<>>]
  /\ call' = Finished("cleanup_all", "returned", "none", "")
  /\ UNCHANGED <<modules, is_initialized, redis, app, result, initialization_order, idx, pc,
                 cleanup_tasks, ctask, initLog, cleanupLog, emitted, middleware, disp>>

(***************************************************************************)
(* Introspection: health_check_all and create_main_router.                 *)
(***************************************************************************)
\* BaseModule.health_check; the built-in modules add fields to this record.
health_check(n, flags) ==
  [name |-> n, status |-> IF flags[n] THEN "healthy" ELSE "not_initialized", version |-> Version]

\* How the health_check of one module ends.
HealthOutcomes == {"returns", "raises"}

\* Variant: a module whose health_check raises is left out of the report.
health_check_all_omits_failed(mods, flags, out, hs, svc, sing) ==
  LET ok == {n \in NamesOf(mods) : out[n] # "raises"}
      health_results == [n \in ok |-> health_check(n, flags)]
  IN [status |-> IF \E n \in ok : health_results[n].status # "healthy"
                   THEN "degraded" ELSE "healthy",
      modules |-> health_results,
      total_modules |-> Len(mods),
      system |-> [event_subscribers |-> [t \in DOMAIN hs |-> Len(hs[t])],
                  registered_services |-> Cardinality(DOMAIN svc),
                  registered_singletons |-> Cardinality(DOMAIN sing)]]

\* ModuleManager.health_check_all; out[n] is how health_check of n ends.
health_check_all(mods, flags, out, hs, svc, sing) ==
  LET health_results ==
        [n \in NamesOf(mods) |->
           IF out[n] = "raises" THEN [name |-> n, status |-> "error", error |-> "str(e)"]
           ELSE health_check(n, flags)]
      overall_status ==
        IF \E n \in NamesOf(mods) : health_results[n].status # "healthy"
          THEN "degraded" ELSE "healthy"
  IN [status |-> overall_status,
      modules |-> health_results,
      total_modules |-> Len(mods),
      system |-> [event_subscribers |-> [t \in DOMAIN hs |-> Len(hs[t])],
                  registered_services |-> Cardinality(DOMAIN svc),
                  registered_singletons |-> Cardinality(DOMAIN sing)]]

\* await module_manager.health_check_all(), between manager calls
HealthCheckAll(out) ==
  /\ Idle
  /\ result' = [op |-> "health_check_all", given |-> out,
                value |-> health_check_all(modules, is_initialized, out, handlers,
                                           services, singletons)]
  /\ UNCHANGED <<modules, is_initialized, singletons, services, redis, app, call,
                 initialization_order, idx, pc, cleanup_tasks, ctask,
                 initLog, cleanupLog, emitted, busVars>>

\* The prefix create_main_router mounts a module's router under.
prefix(name) ==
  CASE name = "auth" -> "/auth"
    [] name = "users" -> "/users"
    [] name = "diaries" -> "/diaries"
    [] name = "media" -> "/media"
    [] OTHER -> "/" \o name

\* Variant: every registered module is mounted.
create_main_router_all_registered(mods, flags) ==
  [i \in 1..Len(mods) |-> [prefix |-> prefix(mods[i].name), tags |-> <<mods[i].name>>,
                           router |-> ModuleObject(mods[i].oid)]]

\* ModuleManager.create_main_router: the include_router calls, in order.
create_main_router(mods, flags) ==
  LET included == SelectSeq(mods, LAMBDA module : flags[module.name])
  IN [i \in 1..Len(included) |->
        [prefix |-> prefix(included[i].name), tags |-> <<included[i].name>>,
         router |-> ModuleObject(included[i].oid)]]

\* module_manager.create_main_router(), between manager calls
CreateMainRouter ==
  /\ Idle
  /\ result' = [op |-> "create_main_router",
                value |-> create_main_router(modules, is_initialized)]
  /\ UNCHANGED <<modules, is_initialized, singletons, services, redis, app, call,
                 initialization_order, idx, pc, cleanup_tasks, ctask,
                 initLog, cleanupLog, emitted, busVars>>

(***************************************************************************)
(* Event bus actions.                                                      *)
(***************************************************************************)
\* The top-level caller is not inside a manager call or a publish.  disp[Main]
\* keeps the last publish and how it ended until the caller's next bus call.
BusIdle == Idle /\ disp[Main].pc \in {"idle", "returned", "raised"}

Subscribe(t, h, bound) ==
  /\ BusIdle
  /\ TotalSubs < bound
  /\ handlers' = subscribe(handlers, t, h)
  /\ disp' = [disp EXCEPT ![Main] = IdleDisp]
  /\ result' = NoResult
  /\ UNCHANGED <<modules, is_initialized, singletons, services, redis, app, call,
                 initialization_order, idx, pc, cleanup_tasks, ctask, initLog, cleanupLog,
                 emitted, middleware>>

AddMiddleware(m) ==
  /\ BusIdle
  /\ Len(middleware) < MaxMiddleware
  /\ middleware' = Append(middleware, m)
  /\ disp' = [disp EXCEPT ![Main] = IdleDisp]
  /\ result' = NoResult
  /\ UNCHANGED <<modules, is_initialized, singletons, services, redis, app, call,
                 initialization_order, idx, pc, cleanup_tasks, ctask, initLog, cleanupLog,
                 emitted, handlers>>

\* await event_bus.publish(event) by the top-level caller
Publish(t) ==
  /\ BusIdle
  /\ disp' = [disp EXCEPT ![Main] = BeginPublish(t, FALSE, middleware, handlers)]
  /\ UNCHANGED <<mgrVars, app, handlers, middleware>>

\* await event_bus.publish_and_wait(event) by the top-level caller
PublishAndWait(t) ==
  /\ BusIdle
  /\ disp' = [disp EXCEPT ![Main] = BeginPublish(t, TRUE, middleware, handlers)]
  /\ UNCHANGED <<mgrVars, app, handlers, middleware>>

\* What the middleware loop has done so far: per middleware called, the event
\* it was given and what the call produced.
MiddlewareRun(d, r, mws) ==
  [d EXCEPT !.mwlog = Append(@, [middleware |-> mws[d.mw], given |-> d.etype, result |-> r])]

\* Variant: the no-event sentinel is passed over like a failed middleware.
after_middleware_sentinel_skipped(d, r, mws, hs) ==
  LET d2 == [MiddlewareRun(d, r, mws) EXCEPT
               !.etype = IF r \in {"raise", "None"} THEN @ ELSE r, !.mw = @ + 1]
  IN IF d2.mw > Len(mws) THEN Dispatch(d2, hs) ELSE d2

\* Variant: a middleware that raises ends the dispatch.
after_middleware_raise_aborts(d, r, mws, hs) ==
  IF r \in {"None", "raise"}
    THEN [MiddlewareRun(d, r, mws) EXCEPT !.pc = "returned", !.ret = <<>>]
    ELSE LET d2 == [MiddlewareRun(d, r, mws) EXCEPT !.etype = r, !.mw = @ + 1]
         IN IF d2.mw > Len(mws) THEN Dispatch(d2, hs) ELSE d2

\* One pass of the middleware loop.  r is what the middleware call produced:
\* "raise", "None", or the type of the event it returned.
after_middleware(d, r, mws, hs) ==
  IF r = "None" THEN [MiddlewareRun(d, r, mws) EXCEPT !.pc = "returned", !.ret = <<>>]
  ELSE LET d2 == [MiddlewareRun(d, r, mws) EXCEPT
                    !.etype = IF r = "raise" THEN @ ELSE r, !.mw = @ + 1]
       IN IF d2.mw > Len(mws) THEN Dispatch(d2, hs) ELSE d2

MiddlewareCall(c, r) ==
  /\ disp[c].pc = "middleware"
  /\ disp' = [disp EXCEPT ![c] = after_middleware(@, r, middleware, handlers)]
  /\ UNCHANGED <<mgrVars, app, handlers, middleware>>

\* What one stretch of a handler may end in.
Outcomes(vals) ==
  {<<"done", v>> : v \in vals} \cup {<<"raised", e>> : e \in ExceptionObjects}
    \cup {<<"suspended", "None">>, <<"hung", "None">>}
\* The same without the suspension in between (the handler ends in the same ways).
FinalOutcomes(vals) == {o \in Outcomes(vals) : o[1] # "suspended"}

\* A handler may call unsubscribe on the type being dispatched (u = 0: it does not).
HandlerEffect(t, u) == IF u = 0 THEN handlers ELSE unsubscribe(handlers, t, u).handlers

\* Variant: a handler is started when the handlers before it have ended.
HandlerStarts_sequential(c, i, o, u) ==
  /\ disp[c].pc = "gather"
  /\ i \in 1..Len(disp[c].tasks)
  /\ disp[c].tasks[i].st = "pending"
  /\ \A j \in 1..(i - 1) : disp[c].tasks[j].st \in {"done", "raised"}
  /\ disp' = [disp EXCEPT ![c].tasks[i] = [st |-> o[1], val |-> o[2]]]
  /\ handlers' = HandlerEffect(disp[c].etype, u)
  /\ UNCHANGED <<mgrVars, app, middleware>>

\* _call_handler starts: tasks start in the order gather was given them.  The
\* handler returns, raises, suspends, or waits for something that never comes.
HandlerStarts(c, i, o, u) ==
  /\ disp[c].pc = "gather"
  /\ i \in 1..Len(disp[c].tasks)
  /\ disp[c].tasks[i].st = "pending"
  /\ \A j \in 1..(i - 1) : disp[c].tasks[j].st # "pending"
  /\ disp' = [disp EXCEPT ![c].tasks[i] = [st |-> o[1], val |-> o[2]]]
  /\ handlers' = HandlerEffect(disp[c].etype, u)
  /\ UNCHANGED <<mgrVars, app, middleware>>

\* A suspended handler runs on.
HandlerResumes(c, i, o, u) ==
  /\ disp[c].pc = "gather"
  /\ i \in 1..Len(disp[c].tasks)
  /\ disp[c].tasks[i].st = "suspended"
  /\ o[1] # "suspended"
  /\ disp' = [disp EXCEPT ![c].tasks[i] = [st |-> o[1], val |-> o[2]]]
  /\ handlers' = HandlerEffect(disp[c].etype, u)
  /\ UNCHANGED <<mgrVars, app, middleware>>

\* Variant: publish goes on as soon as the handlers are scheduled.
GatherReturns_scheduled(c) ==
  /\ disp[c].pc = "gather"
  /\ disp' = [disp EXCEPT ![c] =
                IF @.wait THEN PublishAndWaitAfterGather(@)
                ELSE PublishAfterGather(@, get_handlers(handlers, @.etype))]
  /\ UNCHANGED <<mgrVars, app, handlers, middleware>>

\* gather is complete: every task returned or raised.
GatherReturns(c) ==
  /\ disp[c].pc = "gather"
  /\ \A i \in 1..Len(disp[c].tasks) : disp[c].tasks[i].st \in {"done", "raised"}
  /\ disp' = [disp EXCEPT ![c] =
                IF @.wait THEN PublishAndWaitAfterGather(@)
                ELSE PublishAfterGather(@, get_handlers(handlers, @.etype))]
  /\ UNCHANGED <<mgrVars, app, handlers, middleware>>

(***************************************************************************)
(* Spec: the module manager as the process runs it.  Nothing in the        *)
(* repository subscribes to the bus, so every publish finds no handler.    *)
(***************************************************************************)
Lifecycle(maxModules, maxEdges) ==
  \/ \E n \in Names, deps \in DepLists : RegisterModule(n, deps, maxModules, maxEdges)
  \/ InitializeAll
  \/ InitializeReturns
  \/ InitializeRaises
  \/ CleanupAll
  \/ \E n \in Names : CleanupStarts(n)
  \/ \E n \in Names : CleanupReturns(n)
  \/ \E n \in Names : CleanupRaises(n)
  \/ CleanupAllReturns

Next == Lifecycle(MaxModules, MaxEdges)

Spec == Init /\ [][Next]_vars

(***************************************************************************)
(* EventSpec: the module manager with handlers subscribed to the events it *)
(* publishes.                                                              *)
(***************************************************************************)
MgrValues == {"None"}

EventNext ==
  \/ Lifecycle(EvMaxModules, EvMaxEdges)
  \/ \E t \in LifecycleTypes, h \in 1..MgrMaxSubs : Subscribe(t, h, MgrMaxSubs)
  \/ \E c \in Ctx, i \in 1..MgrMaxSubs, o \in FinalOutcomes(MgrValues), u \in 0..MgrMaxSubs :
        HandlerStarts(c, i, o, u)
  \/ EmitReturns
  \/ EmitRaises
  \/ \E n \in Names : CleanupEmitEnds(n)
  \/ \E out \in [RegisteredNames -> HealthOutcomes] : HealthCheckAll(out)
  \/ CreateMainRouter

EventSpec == Init /\ [][EventNext]_vars

(***************************************************************************)
(* BusSpec: the event bus driven directly by one caller.                   *)
(***************************************************************************)
BusNext ==
  \/ \E t \in DomainTypes, h \in Handlers : Subscribe(t, h, MaxSubs)
  \/ \E m \in Middlewares : AddMiddleware(m)
  \/ \E t \in DomainTypes : Publish(t)
  \/ \E t \in DomainTypes : PublishAndWait(t)
  \/ \E r \in {"raise", "None"} \cup DomainTypes : MiddlewareCall(Main, r)
  \/ \E i \in 1..MaxSubs, o \in Outcomes(Objects), u \in {0} \cup Handlers :
        HandlerStarts(Main, i, o, u)
  \/ \E i \in 1..MaxSubs, o \in Outcomes(Objects), u \in {0} \cup Handlers :
        HandlerResumes(Main, i, o, u)
  \/ GatherReturns(Main)

BusInit == Init /\ ~redis

BusSpec == BusInit /\ [][BusNext]_vars


(***************************************************************************)
(* The registries driven directly: subscribe, unsubscribe, clear_subscribers*)
(* and add_middleware on the bus; register, get, has, list and clear on    *)
(* the container.                                                          *)
(***************************************************************************)
\* The event types handed to the bus here: any str is accepted, the empty one
\* included.
RegistryTypes == {"", USER_CREATED}

Unsubscribe(t, h) ==
  /\ BusIdle
  /\ LET r == unsubscribe(handlers, t, h)
     IN /\ handlers' = r.handlers
        /\ result' = [op |-> "unsubscribe", event_type |-> t, handler |-> h, value |-> r.ok]
  /\ disp' = [disp EXCEPT ![Main] = IdleDisp]
  /\ UNCHANGED <<modules, is_initialized, singletons, services, redis, app, call,
                 initialization_order, idx, pc, cleanup_tasks, ctask, initLog, cleanupLog,
                 emitted, middleware>>

\* clear_subscribers(event_type=None): given is whether an argument was
\* passed.  "if event_type:" is the truth value of the argument, which is
\* false for None and for the empty str.
clear_subscribers(hs, given, t) ==
  IF given /\ t # ""
    THEN [k \in DOMAIN hs \ {t} |-> hs[k]]
    ELSE [k \in {} |-> <<>>]

ClearSubscribers(given, t) ==
  /\ BusIdle
  /\ handlers' = clear_subscribers(handlers, given, t)
  /\ result' = [op |-> "clear_subscribers", given |-> given, event_type |-> t]
  /\ disp' = [disp EXCEPT ![Main] = IdleDisp]
  /\ UNCHANGED <<modules, is_initialized, singletons, services, redis, app, call,
                 initialization_order, idx, pc, cleanup_tasks, ctask, initLog, cleanupLog,
                 emitted, middleware>>

\* list_subscribers: event type -> number of handlers.
list_subscribers(hs) == [t \in DOMAIN hs |-> Len(hs[t])]

RegistryNext ==
  \/ \E t \in RegistryTypes, h \in Handlers : Subscribe(t, h, RegMaxSubs)
  \/ \E t \in RegistryTypes, h \in Handlers : Unsubscribe(t, h)
  \/ \E t \in RegistryTypes : ClearSubscribers(TRUE, t)
  \/ ClearSubscribers(FALSE, "")
  \/ \E m \in Middlewares : AddMiddleware(m)

RegistrySpec == BusInit /\ [][RegistryNext]_vars

\* The names and instances handed to the container here.
ContainerKeys == {<<"shared", "database">>, <<"auth", "database">>}
ContainerInstances == {Database, Redis}

register_service(reg, key, instance) ==
  [k \in DOMAIN reg \cup {key} |-> IF k = key THEN instance ELSE reg[k]]
get_service(key) == IF key \in DOMAIN services THEN services[key] ELSE NotFound
has_service(key) == key \in DOMAIN services
\* list_services, list_singletons: the keys (their order is left out).
list_services == DOMAIN services
list_singletons == DOMAIN singletons

\* Variant: register_service writes the singletons dict.
RegisterService_into_singletons(key, instance) ==
  /\ Idle
  /\ singletons' = register_service(singletons, key, instance)
  /\ result' = [op |-> "register_service", name |-> key, instance |-> instance,
                value |-> NotFound]
  /\ UNCHANGED <<modules, is_initialized, services, redis, app, call,
                 initialization_order, idx, pc, cleanup_tasks, ctask, initLog, cleanupLog,
                 emitted, busVars>>

RegisterService(key, instance) ==
  /\ Idle
  /\ services' = register_service(services, key, instance)
  /\ result' = [op |-> "register_service", name |-> key, instance |-> instance,
                value |-> NotFound]
  /\ UNCHANGED <<modules, is_initialized, singletons, redis, app, call,
                 initialization_order, idx, pc, cleanup_tasks, ctask, initLog, cleanupLog,
                 emitted, busVars>>

RegisterSingleton(key, instance) ==
  /\ Idle
  /\ singletons' = register_singleton(singletons, key, instance)
  /\ result' = [op |-> "register_singleton", name |-> key, instance |-> instance,
                value |-> NotFound]
  /\ UNCHANGED <<modules, is_initialized, services, redis, app, call,
                 initialization_order, idx, pc, cleanup_tasks, ctask, initLog, cleanupLog,
                 emitted, busVars>>

\* A call that only reads the container and hands back value.
ContainerReads(op, key, value) ==
  /\ Idle
  /\ result' = [op |-> op, name |-> key, value |-> value]
  /\ UNCHANGED <<modules, is_initialized, singletons, services, redis, app, call,
                 initialization_order, idx, pc, cleanup_tasks, ctask, initLog, cleanupLog,
                 emitted, busVars>>

GetService(key) == ContainerReads("get_service", key, get_service(key))
GetSingleton(key) == ContainerReads("get_singleton", key, get_singleton(key))
HasService(key) == ContainerReads("has_service", key, has_service(key))
HasSingleton(key) == ContainerReads("has_singleton", key, has_singleton(key))
ListServices == ContainerReads("list_services", <<>>, list_services)
ListSingletons == ContainerReads("list_singletons", <<>>, list_singletons)

\* DependencyContainer.clear
Clear ==
  /\ Idle
  /\ services' = EmptyDict
  /\ singletons' = EmptyDict
  /\ result' = [op |-> "clear", name |-> <<>>, value |-> NotFound]
  /\ UNCHANGED <<modules, is_initialized, redis, app, call,
                 initialization_order, idx, pc, cleanup_tasks, ctask, initLog, cleanupLog,
                 emitted, busVars>>

ContainerNext ==
  \/ \E k \in ContainerKeys, v \in ContainerInstances : RegisterService(k, v)
  \/ \E k \in ContainerKeys, v \in ContainerInstances : RegisterSingleton(k, v)
  \/ \E k \in ContainerKeys : GetService(k)
  \/ \E k \in ContainerKeys : GetSingleton(k)
  \/ \E k \in ContainerKeys : HasService(k)
  \/ \E k \in ContainerKeys : HasSingleton(k)
  \/ ListServices
  \/ ListSingletons
  \/ Clear

ContainerSpec == BusInit /\ [][ContainerNext]_vars


(***************************************************************************)
(* BootSpec: startup_event of the process bootstrap, over a registry that  *)
(* may hold a module registered before it ran.                             *)
(***************************************************************************)
\* register_all_modules: the built-in modules in their registration order.
BuiltInModules ==
  << [name |-> "auth", dependencies |-> <<>>, oid |-> 1],
     [name |-> "users", dependencies |-> <<"auth">>, oid |-> 1],
     [name |-> "media", dependencies |-> <<"auth">>, oid |-> 1],
     [name |-> "diaries", dependencies |-> <<"auth", "users">>, oid |-> 1] >>

\* settings.API_VERSION
API_VERSION == "v1"

\* The names the bootstrap may meet: the built-in ones and one plug-in.
BootNames == NamesOf(BuiltInModules) \cup {"m5"}

\* Module objects registered before startup_event runs: one under a built-in
\* name, or a plug-in that depends on nothing, on a built-in module, on a
\* module nobody registers, or on itself.
BootPlugins ==
  { [name |-> "media", dependencies |-> <<>>, oid |-> 1] } \cup
  { [name |-> "m5", dependencies |-> deps, oid |-> 1] :
      deps \in {<<>>, <<"auth">>, <<"m6">>, <<"m5">>} }

BootInit ==
  /\ modules = <<>>
  /\ is_initialized = [n \in BootNames |-> FALSE]
  /\ singletons = EmptyDict
  /\ services = EmptyDict
  /\ redis \in BOOLEAN
  /\ call = Finished("none", "returned", "none", "")
  /\ initialization_order = <<>>
  /\ idx = 0
  /\ pc = "none"
  /\ cleanup_tasks = <<>>
  /\ ctask = [n \in Names |-> "none"]
  /\ initLog = <<>>
  /\ cleanupLog = <<>>
  /\ emitted = EmptyBag
  /\ result = NoResult
  /\ app = NoRoutes
  /\ handlers = [t \in {} |-> <<>>]
  /\ middleware = <<>>
  /\ disp = [c \in Ctx |-> IdleDisp]

\* module_manager.register_module(module) before the bootstrap runs
RegisterBefore(module) ==
  /\ app.pc = "init"
  /\ modules = <<>>
  /\ LET r == register_module(modules, singletons, module)
     IN /\ modules' = r.modules
        /\ singletons' = r.singletons
        /\ call' = Finished("register_module", IF r.raised THEN "raised" ELSE "returned",
                            IF r.raised THEN "ValueError" ELSE "none", module.name)
  /\ UNCHANGED <<is_initialized, services, redis, app, initialization_order, idx, pc,
                 cleanup_tasks, ctask, initLog, cleanupLog, emitted, result, busVars>>

\* register_all_modules: register_module on a new object of each built-in
\* module, in order; the first one that raises ends it.
RECURSIVE register_all_modules(_, _, _)
register_all_modules(mods, sing, i) ==
  IF i > Len(BuiltInModules)
    THEN [raised |-> FALSE, modules |-> mods, singletons |-> sing]
    ELSE LET module == [BuiltInModules[i] EXCEPT
                           !.oid = IF BuiltInModules[i].name \in NamesOf(mods) THEN 2 ELSE 1]
             r == register_module(mods, sing, module)
         IN IF r.raised THEN r ELSE register_all_modules(r.modules, r.singletons, i + 1)

\* startup_event up to the await of initialize_all.  mongo is whether
\* connect_to_mongo returned; when it raised, startup_event re-raises before
\* anything is registered.  When register_all_modules raises, the except
\* clause logs and re-raises.
StartupEvent(mongo) ==
  /\ app.pc = "init"
  /\ Idle
  /\ IF ~mongo
       THEN /\ app' = [app EXCEPT !.pc = "raised"]
            /\ UNCHANGED <<modules, singletons, call>>
       ELSE LET r == register_all_modules(modules, singletons, 1)
            IN /\ modules' = r.modules
               /\ singletons' = r.singletons
               /\ call' = Finished("register_all_modules",
                                   IF r.raised THEN "raised" ELSE "returned",
                                   IF r.raised THEN "ValueError" ELSE "none", "")
               /\ app' = [app EXCEPT !.pc = IF r.raised THEN "raised" ELSE "registered"]
  /\ UNCHANGED <<is_initialized, services, redis, initialization_order, idx, pc,
                 cleanup_tasks, ctask, initLog, cleanupLog, emitted, result, busVars>>

\* await module_manager.initialize_all(db, redis) in startup_event
StartupInitializes ==
  /\ app.pc = "registered"
  /\ call.op = "register_all_modules"
  /\ InitializeAll

\* app.include_router(api_router, prefix): the routes of the router, each
\* under the prefix.
include_router(router, pfx) ==
  [i \in 1..Len(router) |-> [router[i] EXCEPT !.prefix = pfx \o @]]

\* Variant: the except clause mounts what was initialized before re-raising.
StartupRaises_mounts ==
  /\ app.pc = "registered"
  /\ call.op = "initialize_all" /\ call.status = "raised"
  /\ app' = [pc |-> "raised",
             routes |-> include_router(create_main_router(modules, is_initialized),
                                       "/api/" \o API_VERSION)]
  /\ UNCHANGED <<mgrVars, busVars>>

\* initialize_all returned: the main router is created and mounted, and
\* startup_event returns.
StartupMounts ==
  /\ app.pc = "registered"
  /\ call.op = "initialize_all" /\ call.status = "returned"
  /\ app' = [pc |-> "returned",
             routes |-> include_router(create_main_router(modules, is_initialized),
                                       "/api/" \o API_VERSION)]
  /\ UNCHANGED <<mgrVars, busVars>>

\* initialize_all raised: the except clause logs and re-raises.
StartupRaises ==
  /\ app.pc = "registered"
  /\ call.op = "initialize_all" /\ call.status = "raised"
  /\ app' = [app EXCEPT !.pc = "raised"]
  /\ UNCHANGED <<mgrVars, busVars>>

\* Variant: the module's handle is looked up among the singletons.
get_module_service_reads_singletons(module_name, service_name) ==
  get_singleton(<<module_name, service_name>>)

\* ServiceRegistry.get_module_service, get_shared_service
get_module_service(module_name, service_name) == get_service(<<module_name, service_name>>)
get_shared_service(service_name) == get_service(<<"shared", service_name>>)

GetModuleService(module_name, service_name) ==
  ContainerReads("get_module_service", <<module_name, service_name>>,
                 get_module_service(module_name, service_name))
GetSharedService(service_name) ==
  ContainerReads("get_shared_service", <<"shared", service_name>>,
                 get_shared_service(service_name))

\* Nothing else runs between the synchronous steps of startup_event.
BootNext ==
  \/ \E module \in BootPlugins : RegisterBefore(module)
  \/ \E mongo \in BOOLEAN : StartupEvent(mongo)
  \/ StartupInitializes
  \/ InitializeReturns
  \/ InitializeRaises
  \/ StartupMounts
  \/ StartupRaises
  \/ \E k \in ContainerKeys : app.pc # "registered" /\ RegisterService(k, Database)
  \/ \E n \in BootNames, s \in {"database", "redis"} :
        app.pc # "registered" /\ GetModuleService(n, s)
  \/ \E s \in {"database", "redis"} : app.pc # "registered" /\ GetSharedService(s)

BootSpec == BootInit /\ [][BootNext]_vars


(***************************************************************************)
(* The dependency graph of the registered modules.                         *)
(***************************************************************************)
Dependencies(n) == Range(ModuleOf(modules, n).dependencies)
DependencyEdges ==
  {e \in Names \X Names : e[1] \in RegisteredNames /\ e[2] \in Dependencies(e[1])}
DependsOn == LET RECURSIVE Grow(_)
                 Grow(R) == LET R2 == R \cup {p \in Names \X Names :
                                                \E m \in Names : <<p[1], m>> \in R /\ <<m, p[2]>> \in R}
                            IN IF R2 = R THEN R ELSE Grow(R2)
             IN Grow(DependencyEdges)
HasCycle == \E n \in Names : <<n, n>> \in DependsOn
MissingDependency == \E e \in DependencyEdges : e[2] \notin RegisteredNames
RegistrationOrder == [i \in 1..Len(modules) |-> modules[i].name]
Position(s, x) == CHOOSE i \in 1..Len(s) : s[i] = x

Ended == {"done", "failed", "emit_failed"}

(***************************************************************************)
(* Properties of the module manager.                                       *)
(***************************************************************************)

\* C1: in an initialize_all call over modules whose declared dependencies are
\* all registered and acyclic, no configuration error is raised; no module's
\* initialize is invoked twice; whenever a module's initialize has been
\* invoked, each of its dependencies was invoked before it and is flagged
\* initialized; and when the call returns, every registered module's
\* initialize has been invoked (exactly once).
C1_InitializeInDependencyOrder ==
  (call.op = "initialize_all" /\ ~MissingDependency /\ ~HasCycle) =>
     /\ call.error \notin {"missing_dependency", "circular_dependency", "KeyError"}
     /\ Injective(initLog)
     /\ \A i \in 1..Len(initLog) : \A d \in Dependencies(initLog[i]) :
           /\ \E j \in 1..(i - 1) : initLog[j] = d
           /\ is_initialized[d]
     /\ call.status = "returned" =>
           Len(initLog) = Len(modules) /\ Range(initLog) = RegisteredNames

\* initialize_all returned after initializing three modules in an order that
\* is not the registration order.
C1_Witness ==
  /\ call.op = "initialize_all" /\ call.status = "returned"
  /\ Len(initLog) = 3
  /\ initLog # RegistrationOrder
  /\ \A n \in RegisteredNames : is_initialized[n]

\* C2: when the declared dependencies contain a cycle, initialize_all raises,
\* no module's initialize is invoked and no module is or becomes initialized.
C2_CycleFailsBeforeAnyInitialize ==
  [][(call'.op = "initialize_all" /\ HasCycle') =>
        /\ call'.status = "raised"
        /\ initLog' = <<>>
        /\ is_initialized' = is_initialized
        /\ \A n \in Names : ~is_initialized'[n]]_vars

\* initialize_all raised for a cycle of two modules, with a third registered
\* module that is in no cycle and does not depend on one.
C2_Witness ==
  /\ call.op = "initialize_all" /\ call.status = "raised"
  /\ call.error = "circular_dependency"
  /\ \E a, b \in RegisteredNames : a # b /\ <<a, b>> \in DependsOn /\ <<b, a>> \in DependsOn
  /\ \E n \in RegisteredNames : ModuleOf(modules, n).dependencies = <<>>
  /\ initLog = <<>>

\* C3: when a registered module declares a dependency that is not registered,
\* initialize_all raises the missing-dependency error, no module's initialize
\* is invoked and every module is still not initialized.
C3_MissingDependencyFailsBeforeAnyInitialize ==
  [][(call'.op = "initialize_all" /\ MissingDependency') =>
        /\ call'.status = "raised"
        /\ call'.error = "missing_dependency"
        /\ initLog' = <<>>
        /\ is_initialized' = is_initialized
        /\ \A n \in Names : ~is_initialized'[n]]_vars

\* initialize_all raised because the second registered module names an
\* unregistered dependency while the first module's dependencies are fine.
C3_Witness ==
  /\ call.op = "initialize_all" /\ call.status = "raised"
  /\ call.error = "missing_dependency"
  /\ Len(modules) >= 2
  /\ Dependencies(modules[1].name) \subseteq RegisteredNames
  /\ initLog = <<>>

\* C4: register_module with a name that is already registered raises and
\* changes neither the registry nor the container nor any module's flag.
C4_DuplicateRegistrationChangesNothing ==
  [][(/\ call'.op = "register_module"
      /\ call'.arg \in RegisteredNames
      /\ (call' # call \/ call.status = "raised")) =>
        /\ call'.status = "raised"
        /\ modules' = modules
        /\ singletons' = singletons
        /\ is_initialized' = is_initialized]_vars

\* A duplicate registration was rejected; registry and container still hold
\* the object registered first.
C4_Witness ==
  /\ call.op = "register_module" /\ call.status = "raised"
  /\ ModuleOf(modules, call.arg).oid = 1
  /\ get_singleton(<<"module", call.arg>>) = ModuleObject(1)
  /\ Len(modules) >= 2

\* C5: when the initialize of the k-th module of the initialization order
\* raises, initialize_all raises, exactly the first k modules' initialize has
\* been invoked, the modules before k are flagged initialized, the k-th and
\* the later ones are not, and no cleanup has been invoked.
C5_FailFastWithoutRollback ==
  (call.op = "initialize_all" /\ call.error = "initialize") =>
     /\ call.status = "raised"
     /\ initLog = SubSeq(initialization_order, 1, idx)
     /\ \A j \in 1..Len(initialization_order) :
           is_initialized[initialization_order[j]] <=> j < idx
     /\ cleanupLog = <<>>

\* The second of three modules failed to initialize.
C5_Witness ==
  /\ call.op = "initialize_all" /\ call.status = "raised" /\ call.error = "initialize"
  /\ Len(initialization_order) = 3
  /\ idx = 2
  /\ is_initialized[initialization_order[1]]

\* C6: when cleanup_all runs on a fully initialized module set, no module's
\* cleanup is started before the cleanup of every module depending on it.
C6_CleanupStartsDependentsFirst ==
  (call.op = "cleanup_all" /\ Range(cleanup_tasks) = RegisteredNames) =>
     \A i \in 1..Len(cleanupLog) : \A d \in RegisteredNames :
        cleanupLog[i] \in Dependencies(d) => \E j \in 1..(i - 1) : cleanupLog[j] = d

\* C7: cleanup_all never raises; a module cleanup that raised keeps no other
\* task from starting, finishing or letting cleanup_all return; and when
\* cleanup_all has returned, the cleanup of every module that was initialized
\* has been invoked, and each one that did not raise ran to completion.
C7_CleanupFailuresIsolated ==
  call.op = "cleanup_all" =>
     /\ call.status # "raised"
     /\ \A i \in 1..Len(cleanup_tasks) :
           (/\ call.status = "running"
            /\ ctask[cleanup_tasks[i]] = "created"
            /\ \A j \in 1..(i - 1) : ctask[cleanup_tasks[j]] # "created")
              => ENABLED CleanupStarts(cleanup_tasks[i])
     /\ \A n \in Range(cleanup_tasks) :
           (call.status = "running" /\ ctask[n] = "cleanup") => ENABLED CleanupReturns(n)
     /\ (call.status = "running" /\ \A n \in Range(cleanup_tasks) : ctask[n] \in Ended)
           => ENABLED CleanupAllReturns
     /\ call.status = "returned" =>
           \A n \in Range(cleanup_tasks) :
              /\ n \in Range(cleanupLog)
              /\ ctask[n] \in Ended
              /\ ctask[n] # "failed" => ~is_initialized[n]

\* cleanup_all returned although one module's cleanup raised; the other
\* module's cleanup completed.
C7_Witness ==
  /\ call.op = "cleanup_all" /\ call.status = "returned"
  /\ \E a, b \in Range(cleanup_tasks) :
        /\ ctask[a] = "failed" /\ is_initialized[a]
        /\ ctask[b] = "done" /\ ~is_initialized[b]
        /\ Position(cleanupLog, a) < Position(cleanupLog, b)

(***************************************************************************)
(* Properties of the event bus.                                            *)
(***************************************************************************)
TaskEnded(task) == task.st \in {"done", "raised"}

\* C8 as the specification states it: once publish has scheduled the handlers
\* it can return, whatever the handlers are doing.
C8_PublishFireAndForget ==
  \A c \in Ctx : (disp[c].pc = "gather" /\ ~disp[c].wait) => ENABLED GatherReturns(c)

\* C8: publish returns or raises only after every handler it scheduled has
\* returned or raised; while a handler that never finishes is outstanding,
\* publish cannot return.
C8_PublishWaitsForHandlers ==
  \A c \in Ctx : ~disp[c].wait =>
     /\ disp[c].pc \in {"returned", "raised"} =>
           \A i \in 1..Len(disp[c].tasks) : TaskEnded(disp[c].tasks[i])
     /\ (disp[c].pc = "gather" /\ \E i \in 1..Len(disp[c].tasks) : ~TaskEnded(disp[c].tasks[i]))
           => ~ENABLED GatherReturns(c)

\* publish is held up by a handler that never finishes while the other handler
\* has completed.
C8_Witness ==
  /\ disp[Main].pc = "gather" /\ ~disp[Main].wait
  /\ Len(disp[Main].tasks) = 2
  /\ \E i, j \in 1..2 : disp[Main].tasks[i].st = "hung" /\ disp[Main].tasks[j].st = "done"

\* C9: publish never raises to its caller: when it has ended, it has returned
\* normally, every subscribed handler has been invoked, and each has returned
\* or raised.
C9_PublishNeverRaises ==
  \A c \in Ctx : (~disp[c].wait /\ disp[c].pc \in {"returned", "raised"}) =>
     /\ disp[c].pc = "returned"
     /\ \A i \in 1..Len(disp[c].tasks) : TaskEnded(disp[c].tasks[i])

\* The values of the handlers that returned, in handler order.
ReturnValues(tasks) ==
  LET done == SelectSeq(tasks, LAMBDA task : task.st = "done")
  IN [i \in 1..Len(done) |-> done[i].val]

\* C10: publish_and_wait never raises, returns only after every handler has
\* returned or raised, and returns exactly the values of the handlers that
\* returned, one per such handler.
C10_PublishAndWaitReturnsSuccessfulResults ==
  \A c \in Ctx : (disp[c].wait /\ disp[c].pc \in {"returned", "raised"}) =>
     /\ disp[c].pc = "returned"
     /\ \A i \in 1..Len(disp[c].tasks) : TaskEnded(disp[c].tasks[i])
     /\ disp[c].ret = ReturnValues(disp[c].tasks)

(***************************************************************************)
(* Properties of the middleware chain.                                     *)
(***************************************************************************)
Aborted(d) == \E i \in 1..Len(d.mwlog) : d.mwlog[i].result = "None"

\* C11: when a middleware returns the no-event sentinel, it is the last
\* middleware called for that event, no handler is invoked, publish has
\* returned normally and publish_and_wait has returned the empty list.
C11_SentinelAbortsDispatch ==
  \A c \in Ctx : \A i \in 1..Len(disp[c].mwlog) :
     disp[c].mwlog[i].result = "None" =>
        /\ i = Len(disp[c].mwlog)
        /\ disp[c].pc = "returned"
        /\ disp[c].tasks = <<>>
        /\ disp[c].ret = <<>>

\* The first of two middleware returned the sentinel although a handler is
\* subscribed to the event's type.
C11_Witness ==
  /\ Len(middleware) = 2
  /\ Len(disp[Main].mwlog) = 1
  /\ disp[Main].mwlog[1].result = "None"
  /\ get_handlers(handlers, disp[Main].etype) # <<>>
  /\ disp[Main].pc = "returned"

\* C12: when a middleware raises, the next middleware in registration order is
\* called with the event the failing one was given; after the last middleware
\* the handlers of the resulting event's type are dispatched; and publish does
\* not raise because of the middleware.
C12_FailedMiddlewareSkipped ==
  \A c \in Ctx :
     LET d == disp[c]
         n == Len(d.mwlog)
     IN /\ \A i \in 1..n : d.mwlog[i].result = "raise" =>
             /\ d.mwlog[i].middleware = middleware[i]
             /\ i < n => /\ d.mwlog[i + 1].given = d.mwlog[i].given
                         /\ d.mwlog[i + 1].middleware = middleware[i + 1]
             /\ i = n => d.etype = d.mwlog[i].given
             /\ (i = n /\ i < Len(middleware)) => (d.pc = "middleware" /\ d.mw = i + 1)
             /\ (i = n /\ i = Len(middleware)) => d.pc \in {"gather", "returned", "raised"}
        /\ (n > 0 /\ n = Len(middleware) /\ ~Aborted(d)) =>
             /\ d.tasks = <<>> => (d.pc = "returned" /\ get_handlers(handlers, d.etype) = <<>>)
             /\ d.tasks # <<>> => (d.pc \in {"gather", "returned", "raised"}
                                   /\ Len(d.tasks) = Len(d.snapshot))
        /\ d.pc = "raised" => d.tasks # <<>>

\* The first middleware raised, the second transformed the event, and the
\* handlers of the transformed event's type have been dispatched.
C12_Witness ==
  /\ Len(disp[Main].mwlog) = 2
  /\ disp[Main].mwlog[1].result = "raise"
  /\ disp[Main].mwlog[2].result \notin {"raise", "None", disp[Main].mwlog[2].given}
  /\ disp[Main].etype = disp[Main].mwlog[2].result
  /\ disp[Main].tasks # <<>>
  /\ disp[Main].pc = "returned"

(***************************************************************************)
(* Properties of health_check_all and create_main_router.                  *)
(***************************************************************************)

\* C13: health_check_all returns one record per registered module; a module
\* whose health_check raised has a record with status "error", every other
\* module has the record its own health_check returned; total_modules is the
\* number of registered modules; the overall status is "healthy" exactly when
\* every record has status "healthy", and "degraded" otherwise.
C13_HealthCheckAllIsolatesFailures ==
  result.op = "health_check_all" =>
     LET v == result.value
         out == result.given
     IN /\ DOMAIN v.modules = RegisteredNames
        /\ v.total_modules = Cardinality(RegisteredNames)
        /\ \A n \in RegisteredNames :
              /\ out[n] = "raises" => (v.modules[n].status = "error" /\ v.modules[n].name = n)
              /\ out[n] = "returns" => v.modules[n] = health_check(n, is_initialized)
        /\ v.status \in {"healthy", "degraded"}
        /\ v.status = "healthy" <=> \A n \in RegisteredNames : v.modules[n].status = "healthy"

\* The health_check of one of two initialized modules raised: the report is
\* degraded, the other module is reported healthy.
C13_Witness ==
  /\ result.op = "health_check_all"
  /\ result.value.status = "degraded"
  /\ \E a, b \in RegisteredNames :
        /\ result.given[a] = "raises" /\ is_initialized[a]
        /\ result.value.modules[a].status = "error"
        /\ result.value.modules[b].status = "healthy"

MountedNames(router) == [i \in 1..Len(router) |-> router[i].tags[1]]

\* C15: create_main_router mounts the router of a registered module exactly
\* when the module is flagged initialized, once, under "/" followed by the
\* module's name, in registration order; and the call changes nothing of the
\* manager, the container or the bus.
C15_MainRouterMountsInitializedModules ==
  /\ [](result.op = "create_main_router" =>
          LET names == MountedNames(result.value)
          IN /\ Injective(names)
             /\ Range(names) = {n \in RegisteredNames : is_initialized[n]}
             /\ \A i \in 1..Len(names) :
                   /\ result.value[i].prefix = "/" \o names[i]
                   /\ result.value[i].router = ModuleObject(ModuleOf(modules, names[i]).oid)
             /\ \A i, j \in 1..Len(names) :
                   i < j => Position(RegistrationOrder, names[i]) < Position(RegistrationOrder, names[j])
             /\ \A n \in {"auth", "users", "media", "diaries"} : prefix(n) = "/" \o n)
  /\ [][(result'.op = "create_main_router" /\ result' # result) =>
          UNCHANGED <<modules, is_initialized, singletons, services, redis, app, call,
                      initialization_order, idx, pc, cleanup_tasks, ctask,
                      initLog, cleanupLog, emitted, busVars>>]_vars

\* create_main_router was called with two modules registered of which only the
\* first is initialized.
C15_Witness ==
  /\ result.op = "create_main_router"
  /\ Len(modules) = 2
  /\ is_initialized[modules[1].name] /\ ~is_initialized[modules[2].name]
  /\ Len(result.value) = 1
  /\ result.value[1].prefix = "/auth"

(***************************************************************************)
(* Properties of the end of cleanup_all.                                   *)
(***************************************************************************)

\* C14: while cleanup_all is running, the container keeps its entries and the
\* bus keeps its event types; the step in which cleanup_all returns is taken
\* when every started module cleanup has ended, and leaves the container
\* without service and singleton and the bus without subscriber.
C14_ClearedAfterAllCleanups ==
  /\ [][(InCleanupAll /\ call'.status = "running") =>
          /\ singletons' = singletons
          /\ services' = services
          /\ DOMAIN handlers' = DOMAIN handlers]_vars
  /\ [][(InCleanupAll /\ call'.status # "running") =>
          /\ call'.status = "returned"
          /\ \A n \in Range(cleanup_tasks) : ctask[n] \in Ended /\ n \in Range(cleanupLog)
          /\ DOMAIN singletons' = {}
          /\ DOMAIN services' = {}
          /\ \A t \in EventTypes : get_handlers(handlers', t) = <<>>]_vars

\* cleanup_all has returned after the cleanups of both modules of a fully
\* initialized set ended, one of them by raising: nothing is left in the
\* container or on the bus.
C14_Witness ==
  /\ call.op = "cleanup_all" /\ call.status = "returned"
  /\ Len(cleanup_tasks) = 2 /\ Range(cleanup_tasks) = RegisteredNames
  /\ \E a, b \in RegisteredNames : ctask[a] = "failed" /\ ctask[b] = "done"
  /\ DOMAIN singletons = {} /\ DOMAIN services = {} /\ DOMAIN handlers = {}

(***************************************************************************)
(* Properties of the initialization order.                                 *)
(***************************************************************************)
\* Every module is registered after all the modules it depends on.
RegistrationIsTopological(mods) ==
  \A i \in 1..Len(mods) :
     Range(mods[i].dependencies) \subseteq {mods[j].name : j \in 1..(i - 1)}

\* C16: the order initialize_all follows is the one _get_initialization_order
\* computes from the registry; whenever the registration order is itself a
\* topological order of the dependencies, that order is the registration
\* order; for the built-in modules it is auth, users, media, diaries.
C16_RegistrationOrderKeptWhenTopological ==
  /\ (call.op = "initialize_all" /\ initialization_order # <<>>) =>
        initialization_order = get_initialization_order(modules).order
  /\ RegistrationIsTopological(modules) =>
        /\ get_initialization_order(modules).err = "none"
        /\ get_initialization_order(modules).order = RegistrationOrder
        /\ (call.op = "initialize_all" /\ modules # <<>>) =>
              initialization_order = RegistrationOrder
  /\ RegistrationIsTopological(BuiltInModules)
  /\ get_initialization_order(BuiltInModules).order = <<"auth", "users", "media", "diaries">>

\* initialize_all returned for three modules registered dependencies first,
\* the last one depending on both others, having followed the registration order.
C16_Witness ==
  /\ call.op = "initialize_all" /\ call.status = "returned"
  /\ Len(modules) = 3
  /\ RegistrationIsTopological(modules)
  /\ Range(modules[3].dependencies) = {modules[1].name, modules[2].name}
  /\ initLog = RegistrationOrder

(***************************************************************************)
(* Properties of the lifecycle events.                                     *)
(***************************************************************************)

\* C17: during and after an initialize_all call, module.initialized has been
\* handed to publish exactly once, with the module's name and version, for
\* each module that is flagged initialized, and not at all for any other
\* module: not for the module whose initialize is running or has raised, and
\* always for the modules invoked before the one invoked last.
C17_OneInitializedEventPerSuccess ==
  call.op = "initialize_all" =>
     /\ \A n \in Names :
           CopiesIn(Event(MODULE_INITIALIZED, n), emitted) = IF is_initialized[n] THEN 1 ELSE 0
     /\ \A e \in BagToSet(emitted) :
           /\ e.event_type = MODULE_INITIALIZED
           /\ e.data.module_name \in Range(initLog)
           /\ e.data.version = Version
     /\ \A i \in 1..(Len(initLog) - 1) :
           CopiesIn(Event(MODULE_INITIALIZED, initLog[i]), emitted) = 1
     /\ pc = "initialize" =>
           CopiesIn(Event(MODULE_INITIALIZED, initialization_order[idx]), emitted) = 0
     /\ call.error = "initialize" =>
           CopiesIn(Event(MODULE_INITIALIZED, call.arg), emitted) = 0

\* The second module's initialize raised after the first module's event had
\* been published with a handler subscribed to it.
C17_Witness ==
  /\ call.op = "initialize_all" /\ call.error = "initialize"
  /\ Len(initLog) = 2
  /\ call.arg = initLog[2]
  /\ get_handlers(handlers, MODULE_INITIALIZED) # <<>>
  /\ CopiesIn(Event(MODULE_INITIALIZED, initLog[1]), emitted) = 1

(***************************************************************************)
(* Properties of the container during initialize_all.                      *)
(***************************************************************************)

\* C18: while the initialize of a module M is running, shared.database and
\* M.database are registered with the database handle, shared.redis and
\* M.redis are registered exactly when the process holds a cache handle, and
\* for no module later in the initialization order a database or redis
\* singleton is registered.
C18_ServicesRegisteredJustBeforeInitialize ==
  (InInitializeAll /\ pc = "initialize") =>
     LET M == initialization_order[idx]
     IN /\ has_singleton(<<"shared", "database">>)
        /\ get_singleton(<<"shared", "database">>) = Database
        /\ has_singleton(<<M, "database">>)
        /\ get_singleton(<<M, "database">>) = Database
        /\ has_singleton(<<"shared", "redis">>) <=> redis
        /\ has_singleton(<<M, "redis">>) <=> redis
        /\ \A j \in (idx + 1)..Len(initialization_order) :
              /\ ~has_singleton(<<initialization_order[j], "database">>)
              /\ ~has_singleton(<<initialization_order[j], "redis">>)

\* The initialize of the second of three modules is running, with a cache
\* handle: the third module has no singleton yet.
C18_Witness ==
  /\ InInitializeAll /\ pc = "initialize"
  /\ redis
  /\ Len(initialization_order) = 3 /\ idx = 2
  /\ has_singleton(<<initialization_order[1], "redis">>)
  /\ has_singleton(<<initialization_order[2], "redis">>)
  /\ ~has_singleton(<<initialization_order[3], "database">>)

(***************************************************************************)
(* Properties of the initialized flag.                                     *)
(***************************************************************************)

\* C19: a module's flag becomes true only in the step in which its initialize
\* returns, and becomes false only in the step in which its cleanup returns;
\* while its initialize is running and after its initialize raised the flag is
\* false and the base health_check reports "not_initialized".
C19_FlagFlippedOnlyByBaseWrappers ==
  /\ [][\A n \in Names :
          /\ (~is_initialized[n] /\ is_initialized'[n]) =>
                /\ InInitializeAll /\ pc = "initialize" /\ initialization_order[idx] = n
                /\ call'.status # "raised" \/ call'.error # "initialize"
          /\ (is_initialized[n] /\ ~is_initialized'[n]) =>
                /\ InCleanupAll /\ ctask[n] = "cleanup"
                /\ ctask'[n] \in {"emit", "done"}]_vars
  /\ [](\A n \in Names :
          (\/ InInitializeAll /\ pc = "initialize" /\ initialization_order[idx] = n
           \/ call.op = "initialize_all" /\ call.error = "initialize" /\ call.arg = n) =>
             /\ ~is_initialized[n]
             /\ health_check(n, is_initialized).status = "not_initialized")

\* The initialize of the second module is running: the first module is
\* flagged and reported healthy, the second is not.
C19_Witness ==
  /\ InInitializeAll /\ pc = "initialize" /\ idx = 2
  /\ is_initialized[initialization_order[1]]
  /\ health_check(initialization_order[1], is_initialized).status = "healthy"
  /\ ~is_initialized[initialization_order[2]]

(***************************************************************************)
(* Properties of the dispatch order.                                       *)
(***************************************************************************)
Started(task) == task.st # "pending"

\* C20: a publish or publish_and_wait call creates one task per entry of the
\* subscription list of the event's type, in the order of the list, which is
\* the order of the subscribe calls (a handler subscribed twice has two
\* entries); the tasks are started in that order; and the next task can start
\* as soon as the tasks before it have started, whether or not they have ended.
C20_HandlersStartInOrderConcurrently ==
  /\ [][\A t \in EventTypes :
          Len(get_handlers(handlers', t)) > Len(get_handlers(handlers, t)) =>
             \E h \in Handlers : get_handlers(handlers', t) = Append(get_handlers(handlers, t), h)]_vars
  /\ [][\A c \in Ctx :
          (disp'[c].pc = "gather" /\ disp[c].pc # "gather") =>
             /\ disp'[c].snapshot = get_handlers(handlers, disp'[c].etype)
             /\ Len(disp'[c].tasks) = Len(disp'[c].snapshot)
             /\ \A i \in 1..Len(disp'[c].tasks) : ~Started(disp'[c].tasks[i])]_vars
  /\ [](\A c \in Ctx :
          /\ \A i, j \in 1..Len(disp[c].tasks) :
                (i < j /\ Started(disp[c].tasks[j])) => Started(disp[c].tasks[i])
          /\ \A i \in 1..Len(disp[c].tasks) :
                (/\ disp[c].pc = "gather"
                 /\ ~Started(disp[c].tasks[i])
                 /\ \A j \in 1..(i - 1) : Started(disp[c].tasks[j]))
                   => ENABLED HandlerStarts(c, i, <<"done", "None">>, 0))

\* A handler subscribed twice: its first task is suspended, its second task
\* has already run to completion.
C20_Witness ==
  /\ disp[Main].pc = "gather"
  /\ Len(disp[Main].snapshot) = 2
  /\ disp[Main].snapshot[1] = disp[Main].snapshot[2]
  /\ disp[Main].tasks[1].st = "suspended"
  /\ disp[Main].tasks[2].st = "done"

(***************************************************************************)
(* Properties of publish without subscribers and with changing ones.       *)
(***************************************************************************)

\* C22: a publish or publish_and_wait that no middleware aborted and that
\* finds no handler subscribed to the event's type (no list for the type or an
\* empty one) has called every registered middleware, in order, creates no
\* handler task and returns normally in the same step.
C22_NoSubscriberNoHandlerCall ==
  /\ [](\A c \in Ctx :
          LET d == disp[c]
          IN (d.pc \notin {"idle", "middleware"} /\ ~Aborted(d) /\ d.tasks = <<>>) =>
                /\ d.pc = "returned"
                /\ d.ret = <<>>
                /\ Len(d.mwlog) = Len(middleware)
                /\ \A i \in 1..Len(d.mwlog) : d.mwlog[i].middleware = middleware[i])
  /\ [][\A c \in Ctx :
          (/\ disp'[c] # disp[c]
           /\ disp[c].pc # "gather"
           /\ disp'[c].pc \notin {"idle", "middleware"}
           /\ ~Aborted(disp'[c])
           /\ get_handlers(handlers, disp'[c].etype) = <<>>) =>
                (disp'[c].pc = "returned" /\ disp'[c].tasks = <<>>)]_vars

\* publish returned without a handler call after both middleware ran: the
\* event's type has an empty handler list, another type has a handler.
C22_Witness ==
  /\ disp[Main].pc = "returned" /\ ~disp[Main].wait
  /\ disp[Main].tasks = <<>>
  /\ Len(disp[Main].mwlog) = 2 /\ ~Aborted(disp[Main])
  /\ disp[Main].etype \in DOMAIN handlers
  /\ handlers[disp[Main].etype] = <<>>
  /\ \E t \in DOMAIN handlers : handlers[t] # <<>>

\* C26: a publish during which a handler was unsubscribed from the event's
\* type and a handler raised returns normally.
C26_UnsubscribeDuringDispatchHarmless ==
  \A c \in Ctx :
     LET d == disp[c]
     IN (/\ ~d.wait
         /\ d.pc \in {"returned", "raised"}
         /\ Len(get_handlers(handlers, d.etype)) < Len(d.snapshot)
         /\ \E i \in 1..Len(d.tasks) : d.tasks[i].st = "raised") =>
            d.pc = "returned"

(***************************************************************************)
(* Properties of what cleanup_all covers and what it leaves.               *)
(***************************************************************************)

\* C27: cleanup_all creates a cleanup task for exactly the registered modules
\* that are flagged initialized when it is called, one each: after an
\* initialize_all that failed at the k-th module these are the modules before
\* k, after a cleanup_all in which every cleanup succeeded there is none; and
\* cleanup is invoked once on each of them and on no other module.
C27_CleanupOnlyOfInitialized ==
  /\ [](call.op = "cleanup_all" =>
          /\ Injective(cleanupLog)
          /\ Range(cleanupLog) \subseteq Range(cleanup_tasks)
          /\ call.status = "returned" => Range(cleanupLog) = Range(cleanup_tasks))
  /\ [][(Idle /\ call'.op = "cleanup_all") =>
          /\ Injective(cleanup_tasks')
          /\ Range(cleanup_tasks') = {n \in RegisteredNames : is_initialized[n]}
          /\ (call.op = "initialize_all" /\ call.error = "initialize") =>
                Range(cleanup_tasks') = {initialization_order[j] : j \in 1..(idx - 1)}
          /\ (call.op = "cleanup_all" /\ \A n \in Range(cleanup_tasks) : ctask[n] = "done") =>
                (cleanup_tasks' = <<>> /\ cleanupLog' = <<>>)]_vars

\* cleanup_all returned with three modules registered and only one of them
\* initialized: cleanup was invoked on that one alone.
C27_Witness ==
  /\ call.op = "cleanup_all" /\ call.status = "returned"
  /\ Len(modules) = 3
  /\ Len(cleanup_tasks) = 1
  /\ cleanupLog = cleanup_tasks
  /\ ctask[cleanup_tasks[1]] = "done"

\* C29: the registry only grows; the step in which cleanup_all returns leaves
\* the registry as it is and the container without any module.<name>
\* singleton; and register_module with a name that is registered raises and
\* leaves the registry unchanged, whether or not cleanup_all ran before.
C29_CleanupDoesNotUnregister ==
  /\ [][Len(modules') >= Len(modules) /\ SubSeq(modules', 1, Len(modules)) = modules]_vars
  /\ [][(call'.op = "cleanup_all" /\ call'.status = "returned") =>
          /\ modules' = modules
          /\ \A n \in Names : <<"module", n>> \notin DOMAIN singletons']_vars
  /\ [][(call'.op = "register_module" /\ call'.arg \in RegisteredNames /\ call' # call) =>
          (call'.status = "raised" /\ modules' = modules)]_vars

\* A registration was rejected as a duplicate although cleanup_all had removed
\* the module.<name> singleton of that name.
C29_Witness ==
  /\ call.op = "register_module" /\ call.status = "raised"
  /\ call.arg \in RegisteredNames
  /\ ~has_singleton(<<"module", call.arg>>)

\* C28: in cleanup_all, a module whose cleanup raised stays flagged initialized
\* and no module.shutdown is published for it, also after cleanup_all returned;
\* a module whose cleanup returned is not flagged and exactly one
\* module.shutdown was published for it; a module whose cleanup has not ended
\* is flagged and has none.  Every step that publishes module.shutdown leaves
\* the subscriptions as they are and happens before cleanup_all clears them.
C28_FailedCleanupKeepsFlag ==
  /\ [](call.op = "cleanup_all" =>
          \A n \in Range(cleanup_tasks) :
             /\ ctask[n] \in {"created", "cleanup", "failed"} =>
                   /\ is_initialized[n]
                   /\ CopiesIn(Event(MODULE_SHUTDOWN, n), emitted) = 0
             /\ ctask[n] \in {"emit", "done", "emit_failed"} =>
                   /\ ~is_initialized[n]
                   /\ CopiesIn(Event(MODULE_SHUTDOWN, n), emitted) = 1)
  /\ [][(InCleanupAll /\ emitted' # emitted) =>
          (handlers' = handlers /\ call' = call)]_vars

\* cleanup_all returned after the cleanup of one module raised and that of
\* another returned.
C28_Witness ==
  /\ call.op = "cleanup_all" /\ call.status = "returned"
  /\ \E n, m \in Range(cleanup_tasks) :
        /\ ctask[n] = "failed" /\ is_initialized[n]
        /\ CopiesIn(Event(MODULE_SHUTDOWN, n), emitted) = 0
        /\ ctask[m] \in {"done", "emit_failed"} /\ ~is_initialized[m]
        /\ CopiesIn(Event(MODULE_SHUTDOWN, m), emitted) = 1

(***************************************************************************)
(* Properties of the registries.                                           *)
(***************************************************************************)

\* C23: unsubscribe(event_type, handler) returns true exactly when the handler
\* is in the list of that type; it then removes the earliest occurrence and
\* keeps every other entry of that list in its order and the lists of the
\* other types as they are; when it returns false no subscription changes.
C23_UnsubscribeRemovesEarliest ==
  [][result'.op = "unsubscribe" =>
       LET t == result'.event_type
           h == result'.handler
           before == get_handlers(handlers, t)
           after == get_handlers(handlers', t)
       IN /\ result'.value = (h \in Range(before))
          /\ result'.value =>
                /\ \E i \in 1..Len(before) :
                      /\ before[i] = h
                      /\ \A j \in 1..(i - 1) : before[j] # h
                      /\ after = SubSeq(before, 1, i - 1) \o SubSeq(before, i + 1, Len(before))
                /\ \A u \in EventTypes \cup RegistryTypes :
                      u # t => get_handlers(handlers', u) = get_handlers(handlers, u)
          /\ ~result'.value => handlers' = handlers]_vars

\* unsubscribe returned true for a handler that was subscribed twice to the
\* type with another one in between: the later occurrence is still there,
\* behind the other handler.
C23_Witness ==
  /\ result.op = "unsubscribe" /\ result.value
  /\ Len(get_handlers(handlers, result.event_type)) = 2
  /\ get_handlers(handlers, result.event_type)[2] = result.handler
  /\ get_handlers(handlers, result.event_type)[1] # result.handler

\* C24: clear_subscribers given an event type leaves that type without
\* handlers and the handlers of every other type as they are, whatever the
\* type; without an event type it leaves no type with handlers; middleware
\* stay registered in both cases.
C24_ClearSubscribersOfOneType ==
  [][result'.op = "clear_subscribers" =>
       /\ middleware' = middleware
       /\ IF result'.given
            THEN /\ get_handlers(handlers', result'.event_type) = <<>>
                 /\ \A u \in EventTypes \cup RegistryTypes :
                       u # result'.event_type =>
                          get_handlers(handlers', u) = get_handlers(handlers, u)
            ELSE \A u \in EventTypes \cup RegistryTypes : get_handlers(handlers', u) = <<>>]_vars

\* C25: register_service leaves what get_singleton, has_singleton and
\* list_singletons return as it was and stores the new instance under the
\* name in the services; register_singleton likewise with the namespaces
\* swapped; the reading calls change neither namespace; get_service and get_singleton of a
\* name that is not in the queried namespace return None, whether or not the
\* other namespace has the name; clear leaves both namespaces empty.
C25_NamespacesIndependent ==
  /\ [](/\ result.op = "get_service" =>
             result.value = IF has_service(result.name) THEN services[result.name] ELSE NotFound
        /\ result.op = "get_singleton" =>
             result.value = IF has_singleton(result.name) THEN singletons[result.name] ELSE NotFound
        /\ result.op = "has_service" => result.value = (result.name \in DOMAIN services)
        /\ result.op = "has_singleton" => result.value = (result.name \in DOMAIN singletons)
        /\ result.op = "list_services" => result.value = DOMAIN services
        /\ result.op = "list_singletons" => result.value = DOMAIN singletons)
  /\ [][/\ result'.op = "register_service" =>
             /\ \A k \in ContainerKeys :
                   /\ get_singleton(k)' = get_singleton(k)
                   /\ has_singleton(k)' = has_singleton(k)
                   /\ k # result'.name =>
                         (get_service(k)' = get_service(k) /\ has_service(k)' = has_service(k))
             /\ list_singletons' = list_singletons
             /\ result'.name \in DOMAIN services'
             /\ services'[result'.name] = result'.instance
        /\ result'.op = "register_singleton" =>
             /\ \A k \in ContainerKeys :
                   /\ get_service(k)' = get_service(k)
                   /\ has_service(k)' = has_service(k)
                   /\ k # result'.name =>
                         (get_singleton(k)' = get_singleton(k) /\ has_singleton(k)' = has_singleton(k))
             /\ list_services' = list_services
             /\ result'.name \in DOMAIN singletons'
             /\ singletons'[result'.name] = result'.instance
        /\ result'.op \in {"get_service", "get_singleton", "has_service", "has_singleton",
                           "list_services", "list_singletons"} =>
             (services' = services /\ singletons' = singletons)
        /\ result'.op = "clear" => (list_services' = {} /\ list_singletons' = {})]_vars

\* get_service missed a name that is registered as a singleton, while another
\* name is registered as a service.
C25_Witness ==
  /\ result.op = "get_service"
  /\ result.value = NotFound
  /\ has_singleton(result.name) /\ ~has_service(result.name)
  /\ list_services # {}

(***************************************************************************)
(* Properties of the process bootstrap.                                    *)
(***************************************************************************)

\* C21: module routes are mounted on the app only by a startup_event that
\* returned, after register_all_modules and initialize_all both returned:
\* then every registered module, the built-in ones among them, is initialized
\* and mounted under /api/v1.  When connect_to_mongo, register_all_modules or
\* initialize_all (its dependency check, its order computation or a module's
\* initialize) raised, the next step of startup_event is to raise, and no
\* module route is mounted then or later.
C21_RoutesOnlyAfterSuccessfulStartup ==
  /\ [](/\ app.routes # <<>> => app.pc = "returned"
        /\ app.pc = "returned" =>
             /\ call.op = "initialize_all" /\ call.status = "returned"
             /\ NamesOf(BuiltInModules) \subseteq RegisteredNames
             /\ \A n \in RegisteredNames : is_initialized[n]
             /\ MountedNames(app.routes) = [i \in 1..Len(modules) |-> modules[i].name]
             /\ \A i \in 1..Len(app.routes) :
                   app.routes[i].prefix = "/api/v1/" \o modules[i].name
        /\ (call.op \in {"register_all_modules", "initialize_all"} /\ call.status = "raised") =>
             /\ app.routes = <<>>
             /\ app.pc \in {"registered", "raised"}
             /\ app.pc = "registered" => (ENABLED StartupRaises /\ ~ENABLED StartupMounts))
  /\ [][/\ (app.pc = "registered" /\ call.status = "raised") => app'.pc = "raised"
        /\ app.pc = "raised" => app' = app
        /\ app'.pc = "returned" =>
              (call.op = "initialize_all" /\ call.status = "returned")]_vars

\* startup_event raised because the initialize of a module raised after other
\* modules had been initialized: none of them is mounted.
C21_Witness ==
  /\ app.pc = "raised"
  /\ call.op = "initialize_all" /\ call.error = "initialize"
  /\ \E n \in RegisteredNames : is_initialized[n]
  /\ app.routes = <<>>

\* C30: initialize_all writes the singletons only: once it returned, the
\* singletons hold shared.database and <module>.database for every registered
\* module (and <module>.redis when there is a cache handle), while the
\* services hold only what register_service put there; get_module_service
\* and get_shared_service return the entry of the services, so they return
\* None for every name register_service was not called with.
C30_ModuleServiceLookupMissesSingletons ==
  /\ []((call.op = "initialize_all" /\ call.status = "returned") =>
          /\ get_singleton(<<"shared", "database">>) = Database
          /\ \A n \in RegisteredNames :
                /\ get_singleton(<<n, "database">>) = Database
                /\ redis => get_singleton(<<n, "redis">>) = Redis)
  /\ [](result.op \in {"get_module_service", "get_shared_service"} =>
          result.value = IF result.name \in DOMAIN services
                           THEN services[result.name] ELSE NotFound)
  /\ [][services' # services =>
          /\ result'.op = "register_service"
          /\ services' = register_service(services, result'.name, result'.instance)]_vars

\* After a successful initialize_all, get_module_service("users", "database")
\* returned None although the singleton users.database is there, while
\* auth.database had been registered as a service.
C30_Witness ==
  /\ call.op = "initialize_all" /\ call.status = "returned"
  /\ result.op = "get_module_service"
  /\ result.name = <<"users", "database">>
  /\ result.value = NotFound
  /\ get_singleton(<<"users", "database">>) = Database
  /\ has_service(<<"auth", "database">>)

====
